---------------------------- MODULE Spec2Model ----------------------------
(***************************************************************************)
(* Model of rekallpy/setup.py, the packaging manifest of rekall.           *)
(*                                                                         *)
(* The manifest is a Python script of three statements: the import of      *)
(* setuptools.setup (line 1), the __main__ guard (line 3) and, under the   *)
(* guard, one call of setup() with twelve constant keyword arguments       *)
(* (lines 4-16).  The model executes that script statement by statement,   *)
(* in an environment (the module's __name__, the command line, the state   *)
(* of the git repository) that the script itself never reads.              *)
(*                                                                         *)
(* Two executions of the script, each in an environment of its own, run    *)
(* side by side, so that what one execution passes to setup() can be       *)
(* compared with what another passes.                                      *)
(*                                                                         *)
(* What setup() then does with the keyword arguments (fetching             *)
(* setup_requires, letting the setuptools-git-version plugin compute the   *)
(* version, running the commands of the command line) is not code of       *)
(* setup.py.  It is modelled after the behaviour the specification         *)
(* describes (section 6 and section 8) and the keywords' documented        *)
(* meaning, in the actions FetchSetupRequires, ComputeVersion, RunCommand  *)
(* and Finish.                                                             *)
(***************************************************************************)
EXTENDS Integers, Sequences, FiniteSets, TLC

\* Longest command line (number of commands after "setup.py").
MaxArgs == 2

\* Most commits a repository is ahead of its latest tag.
MaxCommits == 1

\* The two executions that are compared.
Runs == {1, 2}

\* The values of __name__: "__main__" when the file is run as a script,
\* the module's name when it is imported.
ModuleNames == {"__main__", "setup"}

\* The setuptools commands a command line may name.
Commands == {"install", "pytest"}

\* The tags a repository may carry; "" is a repository without any tag.
Tags == {"0.1.0", "0.2.0"}

NoTag == ""

NoVersion == ""

Range(s) == {s[i] : i \in DOMAIN s}

SeqsUpTo(S, n) == UNION {[1..k -> S] : k \in 0..n}

\* What `git describe --tags --long` reports: the latest tag and the
\* number of commits since.
Repos ==
    {[tag |-> NoTag, count |-> 0]} \cup [tag : Tags, count : 0..MaxCommits]

Environments ==
    [name : ModuleNames, argv : SeqsUpTo(Commands, MaxArgs), repo : Repos]

VARIABLES
    env,        \* env[r]: the environment of execution r (never written)
    pc,         \* pc[r]: the statement execution r is at
    namespace,  \* namespace[r]: the names bound in the module's namespace
    calls,      \* calls[r]: the keyword arguments of each setup() call so far
    fetched,    \* fetched[r]: distributions fetched into the build directory
    version,    \* version[r]: the version in the distribution's metadata
    installed,  \* installed[r]: distributions installed into site-packages
    importable, \* importable[r]: packages the installation made importable
    todo,       \* todo[r]: commands of the command line still to run
    testsRun    \* testsRun[r]: number of test runs so far

vars ==
    <<env, pc, namespace, calls, fetched, version, installed, importable,
      todo, testsRun>>

----------------------------------------------------------------------------
(* setup.py, lines 4-16: the keyword arguments of the call.               *)

\* Line 6, changed: the format the plugin's documentation suggests.
version_format_dev == "{tag}.dev{commitcount}"

\* Line 6.
version_format == "{tag}"

\* Line 12, changed: the package directory named after the distribution.
packages_as_name == <<"rekallpy">>

\* Line 12.
packages == <<"rekall">>

\* Line 13, changed: a dependency forgotten.
install_requires_short == <<"python-constraint", "tqdm">>

\* Line 13.
install_requires == <<"python-constraint", "tqdm", "cloudpickle">>

\* Line 14, changed: the test hook forgotten.
setup_requires_no_hook == <<"setuptools-git-version">>

\* Line 14.
setup_requires == <<"setuptools-git-version", "pytest-runner">>

\* Line 15.
tests_require == <<"pytest">>

\* Lines 4-16, changed: the package's tests declared as a second package.
SetupKwargsWithTests ==
    [name             |-> "rekallpy",
     version_format   |-> version_format,
     description      |-> "Spatiotemporal query language",
     url              |-> "http://github.com/scanner-research/rekall",
     author           |-> "Dan Fu",
     author_email     |-> "danfu@stanford.edu",
     license          |-> "Apache 2.0",
     packages         |-> packages \o <<"rekall.tests">>,
     install_requires |-> install_requires,
     setup_requires   |-> setup_requires,
     tests_require    |-> tests_require,
     zip_safe         |-> FALSE]

\* Lines 4-16.
SetupKwargs ==
    [name             |-> "rekallpy",
     version_format   |-> version_format,
     description      |-> "Spatiotemporal query language",
     url              |-> "http://github.com/scanner-research/rekall",
     author           |-> "Dan Fu",
     author_email     |-> "danfu@stanford.edu",
     license          |-> "Apache 2.0",
     packages         |-> packages,
     install_requires |-> install_requires,
     setup_requires   |-> setup_requires,
     tests_require    |-> tests_require,
     zip_safe         |-> FALSE]

\* Line 3: the condition of the guard.
IsMain(r) == env[r].name = "__main__"

----------------------------------------------------------------------------
(* The script, statement by statement.                                     *)

Init ==
    /\ env \in [Runs -> Environments]
    /\ pc = [r \in Runs |-> "import"]
    /\ namespace = [r \in Runs |-> {}]
    /\ calls = [r \in Runs |-> <<>>]
    /\ fetched = [r \in Runs |-> {}]
    /\ version = [r \in Runs |-> NoVersion]
    /\ installed = [r \in Runs |-> {}]
    /\ importable = [r \in Runs |-> {}]
    /\ todo = [r \in Runs |-> <<>>]
    /\ testsRun = [r \in Runs |-> 0]

\* Line 1: from setuptools import setup.
Import(r) ==
    /\ pc[r] = "import"
    /\ namespace' = [namespace EXCEPT ![r] = @ \cup {"setup"}]
    /\ pc' = [pc EXCEPT ![r] = "guard"]
    /\ UNCHANGED <<env, calls, fetched, version, installed, importable,
                   todo, testsRun>>

\* Line 3, changed: the guard left out, the call made at module level.
GuardAlways(r) ==
    /\ pc[r] = "guard"
    /\ pc' = [pc EXCEPT ![r] = "call"]
    /\ UNCHANGED <<env, namespace, calls, fetched, version, installed,
                   importable, todo, testsRun>>

\* Line 3: if __name__ == "__main__".  When the condition is false the
\* script has no further statement and the execution is over.
Guard(r) ==
    /\ pc[r] = "guard"
    /\ pc' = [pc EXCEPT ![r] = IF IsMain(r) THEN "call" ELSE "done"]
    /\ UNCHANGED <<env, namespace, calls, fetched, version, installed,
                   importable, todo, testsRun>>

\* Lines 4-16, changed: the script asks git for the tag itself and passes
\* it on in place of the constant format.
CallSetupFromRepo(r) ==
    /\ pc[r] = "call"
    /\ calls' =
           [calls EXCEPT
               ![r] = Append(@, [SetupKwargs EXCEPT
                                    !.version_format = env[r].repo.tag])]
    /\ todo' = [todo EXCEPT ![r] = env[r].argv]
    /\ pc' = [pc EXCEPT ![r] = "setup_requires"]
    /\ UNCHANGED <<env, namespace, fetched, version, installed, importable,
                   testsRun>>

\* Lines 4-16: setup(name=..., ..., zip_safe=False).  setup() reads the
\* command line (sys.argv[1:]) when it is entered.
CallSetup(r) ==
    /\ pc[r] = "call"
    /\ calls' = [calls EXCEPT ![r] = Append(@, SetupKwargs)]
    /\ todo' = [todo EXCEPT ![r] = env[r].argv]
    /\ pc' = [pc EXCEPT ![r] = "setup_requires"]
    /\ UNCHANGED <<env, namespace, fetched, version, installed, importable,
                   testsRun>>

----------------------------------------------------------------------------
(* Inside setup(): what setuptools does with the keyword arguments.  This  *)
(* is the behaviour the specification describes for the manifest, not code *)
(* of setup.py.                                                            *)

\* The keyword arguments of the call being served.
Kw(r) == calls[r][Len(calls[r])]

\* The plugin's rendering of a version format for a repository state.  On
\* the tagged commit itself the version is the tag whatever the format.
FormatVersion(repo, fmt) ==
    IF repo.count = 0
    THEN repo.tag
    ELSE CASE fmt = "{tag}" -> repo.tag
           [] fmt = "{tag}.dev{commitcount}" ->
                  repo.tag \o ".dev" \o ToString(repo.count)
           [] OTHER -> fmt

\* setup_requires is fetched before any other keyword is interpreted.
FetchSetupRequires(r) ==
    /\ pc[r] = "setup_requires"
    /\ fetched' = [fetched EXCEPT ![r] = @ \cup Range(Kw(r).setup_requires)]
    /\ pc' = [pc EXCEPT ![r] = "keywords"]
    /\ UNCHANGED <<env, namespace, calls, version, installed, importable,
                   todo, testsRun>>

\* The keywords are interpreted.  version_format belongs to the
\* setuptools-git-version plugin, which derives the version from the
\* latest tag of the repository and fails in a repository without a tag;
\* without the plugin the literal version (or setuptools' default) stands.
ComputeVersion(r) ==
    /\ pc[r] = "keywords"
    /\ IF /\ "version_format" \in DOMAIN Kw(r)
          /\ "setuptools-git-version" \in fetched[r]
       THEN IF env[r].repo.tag = NoTag
            THEN /\ pc' = [pc EXCEPT ![r] = "failed"]
                 /\ UNCHANGED version
            ELSE /\ version' =
                        [version EXCEPT
                            ![r] = FormatVersion(env[r].repo,
                                                 Kw(r).version_format)]
                 /\ pc' = [pc EXCEPT ![r] = "commands"]
       ELSE /\ version' =
                   [version EXCEPT
                       ![r] = IF "version" \in DOMAIN Kw(r)
                              THEN Kw(r).version
                              ELSE "0.0.0"]
            /\ pc' = [pc EXCEPT ![r] = "commands"]
    /\ UNCHANGED <<env, namespace, calls, fetched, installed, importable,
                   todo, testsRun>>

\* The next command of the command line.  install puts the distribution
\* (under its name), its install_requires and its packages into
\* site-packages; pytest is the command the pytest-runner hook provides:
\* it fetches install_requires and tests_require and runs the tests.
RunCommand(r) ==
    /\ pc[r] = "commands"
    /\ todo[r] # <<>>
    /\ todo' = [todo EXCEPT ![r] = Tail(@)]
    /\ IF Head(todo[r]) = "install"
       THEN /\ installed' =
                   [installed EXCEPT
                       ![r] = @ \cup {Kw(r).name}
                                \cup Range(Kw(r).install_requires)]
            /\ importable' =
                   [importable EXCEPT ![r] = @ \cup Range(Kw(r).packages)]
            /\ UNCHANGED <<pc, fetched, testsRun>>
       ELSE IF "pytest-runner" \in fetched[r]
            THEN /\ fetched' =
                        [fetched EXCEPT
                            ![r] = @ \cup Range(Kw(r).install_requires)
                                     \cup Range(Kw(r).tests_require)]
                 /\ testsRun' = [testsRun EXCEPT ![r] = @ + 1]
                 /\ UNCHANGED <<pc, installed, importable>>
            ELSE /\ pc' = [pc EXCEPT ![r] = "failed"]
                 /\ UNCHANGED <<fetched, testsRun, installed, importable>>
    /\ UNCHANGED <<env, namespace, calls, version>>

\* setup() returns when the command line is exhausted; the script ends.
Finish(r) ==
    /\ pc[r] = "commands"
    /\ todo[r] = <<>>
    /\ pc' = [pc EXCEPT ![r] = "done"]
    /\ UNCHANGED <<env, namespace, calls, fetched, version, installed,
                   importable, todo, testsRun>>

----------------------------------------------------------------------------

Next ==
    \E r \in Runs :
        \/ Import(r)
        \/ Guard(r)
        \/ CallSetup(r)
        \/ FetchSetupRequires(r)
        \/ ComputeVersion(r)
        \/ RunCommand(r)
        \/ Finish(r)

Spec == Init /\ [][Next]_vars

TypeOK ==
    /\ env \in [Runs -> Environments]
    /\ pc \in [Runs -> {"import", "guard", "call", "setup_requires",
                        "keywords", "commands", "done", "failed"}]
    /\ \A r \in Runs :
        /\ namespace[r] \subseteq {"setup"}
        /\ Len(calls[r]) \in 0..1
        /\ testsRun[r] \in 0..MaxArgs
        /\ todo[r] \in SeqsUpTo(Commands, MaxArgs)

----------------------------------------------------------------------------
(* The claims.                                                             *)

\* Execution r has entered setup().
Called(r) == calls[r] # <<>>

\* Execution r has run the install command.
InstallDone(r) == Called(r) /\ Kw(r).name \in installed[r]

\* C1: every call of setup() passes as install_requires exactly the three
\* entries python-constraint, tqdm and cloudpickle: none of the three is
\* missing and there is no fourth.
C1_InstallRequiresExact ==
    \A r \in Runs : \A i \in DOMAIN calls[r] :
        /\ Len(calls[r][i].install_requires) = 3
        /\ Range(calls[r][i].install_requires) =
               {"python-constraint", "tqdm", "cloudpickle"}

\* C1's case: a call of setup() has just been made.
C1_Witness ==
    \E r \in Runs : Called(r) /\ pc[r] = "setup_requires"

\* C2: the version comes from the repository's tag.  Every call of setup()
\* passes no literal version, passes version_format "{tag}" and lists
\* setuptools-git-version in setup_requires; and whenever a version has
\* been computed, the plugin had been fetched before and the version is the
\* tag of the repository.
C2_VersionFromTag ==
    \A r \in Runs :
        /\ \A i \in DOMAIN calls[r] :
              /\ "version" \notin DOMAIN calls[r][i]
              /\ calls[r][i].version_format = "{tag}"
              /\ "setuptools-git-version" \in Range(calls[r][i].setup_requires)
        /\ version[r] # NoVersion =>
              /\ "setuptools-git-version" \in fetched[r]
              /\ env[r].repo.tag # NoTag
              /\ version[r] = env[r].repo.tag

\* C2's case: a version has been computed in a repository that is ahead of
\* its latest tag.
C2_Witness ==
    \E r \in Runs : version[r] # NoVersion /\ env[r].repo.count > 0

\* C3 as claimed: once the install command has run, every declared runtime
\* dependency is installed and the value of the name field is importable.
C3_NameImportable ==
    \A r \in Runs :
        InstallDone(r) =>
            /\ Range(Kw(r).install_requires) \subseteq installed[r]
            /\ Kw(r).name \in importable[r]

\* C3 as amended: once the install command has run, the three runtime
\* dependencies are installed and the distribution is installed under its
\* name rekallpy, but what is importable is the package of the packages
\* list, rekall, and not the name rekallpy.
C3_PackageImportable ==
    \A r \in Runs :
        InstallDone(r) =>
            /\ {"python-constraint", "tqdm", "cloudpickle"}
                   \subseteq installed[r]
            /\ "rekallpy" \in installed[r]
            /\ importable[r] = {"rekall"}
            /\ "rekallpy" \notin importable[r]

\* C3's case: an execution has run the install command to the end.
C3_Witness ==
    \E r \in Runs : InstallDone(r) /\ pc[r] = "done"

\* C4: every call of setup() passes a packages list of exactly one
\* element, rekall.
C4_SinglePackage ==
    \A r \in Runs : \A i \in DOMAIN calls[r] :
        /\ Len(calls[r][i].packages) = 1
        /\ calls[r][i].packages[1] = "rekall"

\* C4's case: a call of setup() has been made and its keywords are being
\* interpreted.
C4_Witness ==
    \E r \in Runs : Called(r) /\ pc[r] = "keywords"

\* C5: every call of setup() passes tests_require = ['pytest'] and lists
\* pytest-runner in setup_requires; the hook is fetched before the keywords
\* are interpreted and any command runs, so whenever tests have run, the
\* hook had been fetched before them and so had the test runner.
C5_TestHook ==
    \A r \in Runs :
        /\ \A i \in DOMAIN calls[r] :
              /\ calls[r][i].tests_require = <<"pytest">>
              /\ "pytest-runner" \in Range(calls[r][i].setup_requires)
        /\ (Called(r) /\ pc[r] \in {"keywords", "commands", "done"}) =>
              "pytest-runner" \in fetched[r]
        /\ testsRun[r] > 0 =>
              /\ "pytest-runner" \in fetched[r]
              /\ "pytest" \in fetched[r]

\* C5's case: the tests have been run through the hook.
C5_Witness ==
    \E r \in Runs : testsRun[r] > 0 /\ pc[r] = "done"

\* C6: setup() is called only in an execution whose __name__ is
\* "__main__", and there exactly once; an execution under any other
\* __name__ never calls it and has no effect but the binding of the
\* imported name.
C6_OnlyAsMain ==
    \A r \in Runs :
        /\ Len(calls[r]) <= 1
        /\ Called(r) => env[r].name = "__main__"
        /\ (env[r].name = "__main__" /\ pc[r] \notin {"import", "guard", "call"})
               => Len(calls[r]) = 1
        /\ env[r].name # "__main__" =>
              /\ calls[r] = <<>>
              /\ namespace[r] \subseteq {"setup"}
              /\ pc[r] = "done" => namespace[r] = {"setup"}
              /\ fetched[r] = {}
              /\ version[r] = NoVersion
              /\ installed[r] = {}
              /\ importable[r] = {}
              /\ testsRun[r] = 0

\* C6's case: one execution as the main script and one as an imported
\* module have both ended.
C6_Witness ==
    \E r1, r2 \in Runs :
        /\ env[r1].name = "__main__" /\ pc[r1] = "done" /\ Len(calls[r1]) = 1
        /\ env[r2].name # "__main__" /\ pc[r2] = "done"

\* C7: any two executions that call setup(), whatever their environments,
\* pass the same keyword arguments with the same values.
C7_SameKwargs ==
    \A r1, r2 \in Runs :
        (Called(r1) /\ Called(r2)) => calls[r1] = calls[r2]

\* C7's case: two executions with different command lines in different
\* repositories have both called setup(), and the versions computed for
\* them differ.
C7_Witness ==
    \E r1, r2 \in Runs :
        /\ Called(r1) /\ Called(r2)
        /\ env[r1].argv # env[r2].argv
        /\ env[r1].repo # env[r2].repo
        /\ version[r1] # NoVersion /\ version[r2] # NoVersion
        /\ version[r1] # version[r2]

============================================================================
